---------------------------- MODULE Spec2Model ----------------------------
(***************************************************************************)
(* A model of the Multilevel Switch Command Class of node-zwave-js         *)
(* (packages/cc/src/cc/MultilevelSwitchCC.ts) and of the node's interview  *)
(* stage (the ZWaveNode declaration).                                      *)
(*                                                                         *)
(* Conventions                                                             *)
(*   - a JavaScript value that may be undefined is a sequence of length    *)
(*     at most one: Undefined is << >>, a defined x is << x >>;            *)
(*   - a JavaScript string is the sequence of its characters, so that      *)
(*     includes() and split() are computed and not assumed;                *)
(*   - a value handed to the set-value handler is a record                 *)
(*     [type, num]: type is what typeof yields, num the number (or 1/0     *)
(*     for true/false).                                                    *)
(***************************************************************************)
EXTENDS Integers, Sequences, FiniteSets, TLC

VARIABLES
    \* ---- driver options and network ----
    disableOptimisticValueUpdate,  \* applHost.options.disableOptimisticValueUpdate
    supportsCC,                    \* per physical node: endpoint supports Multilevel Switch
    valueDB,                       \* per node: the ValueDB entry currentValue
    \* ---- one run of the set-value handler ----
    pc,                            \* where the handler is
    call,                          \* the arguments of the running call
    sent,                          \* the commands handed to sendCommand
    result,                        \* what the awaited set() resolved to
    writes,                        \* the setValue calls on currentValue, in order
    polls,                         \* the schedulePoll calls, in order
    session,                       \* the supervision session of the Set
    getPending,                    \* a get() started by onUpdate is in flight
    thrown,                        \* the error the handler threw
    \* ---- command codec ----
    preserveUnknownValues,         \* applHost.options.preserveUnknownValues
    cpc,                           \* where the codec machine is
    cmd,                           \* the command built from options
    wire,                          \* the payload on the wire, with its CC version
    decoded,                       \* the command the constructor produced
    persisted,                     \* what persistValues stored
    \* ---- switch type / level change metadata ----
    spc,                           \* where the switch type machine is
    switchType,                    \* the ValueDB entry switchType
    metadata,                      \* the properties that have metadata
    created,                       \* the properties ensureMetadata was last called for
    \* ---- node interview ----
    interviewStage,                \* ZWaveNode.interviewStage
    interviewing,                  \* interview() is running
    lastOp                         \* the operation that made the last step

hvars == << disableOptimisticValueUpdate, supportsCC, valueDB, pc, call, sent,
            result, writes, polls, session, getPending, thrown >>
cvars == << preserveUnknownValues, cpc, cmd, wire, decoded, persisted >>
svars == << spc, switchType, metadata, created >>
ivars == << interviewStage, interviewing, lastOp >>
vars  == << hvars, cvars, svars, ivars >>

Undefined == << >>
Some(x) == << x >>

(***************************************************************************)
(* Bounds of the model.                                                    *)
(***************************************************************************)
\* number of physical nodes of the multicast group (node 1 is also the
\* node a singlecast endpoint addresses)
MaxNodes == 2

Nodes == 1 .. MaxNodes


(***************************************************************************)
(* JavaScript helpers                                                      *)
(***************************************************************************)
Min(a, b) == IF a < b THEN a ELSE b

\* a % b of JavaScript for b > 0: the sign of the result is the dividend's
JsMod(a, b) == IF a >= 0 THEN a % b ELSE -((-a) % b)

\* Array.prototype.indexOf / String.prototype.indexOf for one element:
\* the 0-based index of the first occurrence, -1 when there is none
indexOf(s, x) ==
    IF \E i \in 1 .. Len(s) : s[i] = x
    THEN (CHOOSE i \in 1 .. Len(s) : s[i] = x /\ \A j \in 1 .. i - 1 : s[j] # x) - 1
    ELSE -1

\* String.prototype.includes for a one-character needle
includes(s, ch) == indexOf(s, ch) > -1

\* String.prototype.split(sep) without a limit: every segment
RECURSIVE splitAll(_, _)
splitAll(s, sep) ==
    LET i == indexOf(s, sep)
    IN  IF i = -1
        THEN << s >>
        ELSE << SubSeq(s, 1, i) >> \o splitAll(SubSeq(s, i + 2, Len(s)), sep)

\* String.prototype.split(sep, limit): at most limit segments
split(s, sep, limit) ==
    LET all == splitAll(s, sep)
    IN  SubSeq(all, 1, Min(limit, Len(all)))

\* array[i] of JavaScript, 0-based: undefined past the end
At(arr, i) == IF i + 1 \in 1 .. Len(arr) THEN Some(arr[i + 1]) ELSE Undefined

HexDigit(d) ==
    << "0", "1", "2", "3", "4", "5", "6", "7",
       "8", "9", "a", "b", "c", "d", "e", "f" >>[d + 1]

\* num2hex for one byte: "0x" and two lower-case hex digits
num2hex(n) == << "0", "x", HexDigit(n \div 16), HexDigit(n % 16) >>

(***************************************************************************)
(* The SwitchType enumeration and the level change property names          *)
(***************************************************************************)
\* enum SwitchType: the name of each member, by value
SwitchType ==
    [ v \in 0 .. 7 |->
        CASE v = 0 -> << "n", "o", "t", " ", "s", "u", "p", "p", "o", "r", "t", "e", "d" >>
          [] v = 1 -> << "O", "f", "f", "/", "O", "n" >>
          [] v = 2 -> << "D", "o", "w", "n", "/", "U", "p" >>
          [] v = 3 -> << "C", "l", "o", "s", "e", "/", "O", "p", "e", "n" >>
          [] v = 4 -> << "C", "C", "W", "/", "C", "W" >>
          [] v = 5 -> << "L", "e", "f", "t", "/", "R", "i", "g", "h", "t" >>
          [] v = 6 -> << "R", "e", "v", "e", "r", "s", "e", "/", "F", "o", "r", "w", "a", "r", "d" >>
          [] v = 7 -> << "P", "u", "l", "l", "/", "P", "u", "s", "h" >> ]

\* the values a SupportedReport can carry: payload[0] & 0b11111
SwitchTypeValues == 0 .. 31

\* getEnumMemberName(SwitchType, value)
getEnumMemberName(value) ==
    IF value \in DOMAIN SwitchType
    THEN SwitchType[value]
    ELSE << "u", "n", "k", "n", "o", "w", "n", " ", "(" >> \o num2hex(value) \o << ")" >>

\* Object.keys(SwitchType) of the compiled numeric enum: the integer-like
\* keys "0" .. "7" in ascending order, then the member names as declared
SwitchTypeKeys ==
    [ i \in 1 .. 8 |-> << HexDigit(i - 1) >> ] \o [ i \in 1 .. 8 |-> SwitchType[i - 1] ]

switchTypeToActionsDefaultOffOn(switchTypeName) ==
    split(IF ~includes(switchTypeName, "/") THEN SwitchType[1] ELSE switchTypeName,
          "/", 2)

\* switchTypeToActions: [down, up]; a name without "/" is read as Down/Up
switchTypeToActions(switchTypeName) ==
    split(IF ~includes(switchTypeName, "/") THEN SwitchType[2] ELSE switchTypeName,
          "/", 2)

RECURSIVE flatten(_)
flatten(ss) == IF ss = << >> THEN << >> ELSE Head(ss) \o flatten(Tail(ss))

\* switchTypeProperties: the actions of every key with a "/", concatenated:
\* negative motions at even indices, positive motions at odd indices
switchTypeProperties ==
    LET keys == SelectSeq(SwitchTypeKeys, LAMBDA key : indexOf(key, "/") > -1)
    IN  flatten([ i \in 1 .. Len(keys) |-> switchTypeToActions(keys[i]) ])

\* MultilevelSwitchCCValues.levelChangeUp(switchType).id.property
levelChangeUpProperty(st) == At(switchTypeToActions(getEnumMemberName(st)), 1)

\* MultilevelSwitchCCValues.levelChangeDown(switchType).id.property
levelChangeDownProperty(st) == At(switchTypeToActions(getEnumMemberName(st)), 0)

\* MultilevelSwitchCCValues.levelChangeUp.is(valueId): property is Some(string)
\* or Undefined (typeof property !== "string")
levelChangeUpIs(property) ==
    property # Undefined /\ JsMod(indexOf(switchTypeProperties, property[1]), 2) = 1

\* MultilevelSwitchCCValues.levelChangeDown.is(valueId)
levelChangeDownIs(property) ==
    property # Undefined /\ JsMod(indexOf(switchTypeProperties, property[1]), 2) = 0


(***************************************************************************)
(* Duration (core/values/Duration, exported through core/src/index.ts)     *)
(* A Duration is [unit, value], unit one of seconds, minutes, unknown,     *)
(* default; the value is kept in 0 .. 127.                                 *)
(***************************************************************************)
clamp(v, lo, hi) == IF v < lo THEN lo ELSE IF v > hi THEN hi ELSE v

\* new Duration(value, unit): no 0 minutes, no value for unknown/default
Duration(value, unit) ==
    [ unit  |-> IF unit = "minutes" /\ value = 0 THEN "seconds" ELSE unit,
      value |-> IF unit \in { "unknown", "default" } THEN 0 ELSE clamp(value, 0, 127) ]

\* Duration.from(input) for an input that is undefined or a Duration instance
DurationFrom(input) == input

\* Duration.parseReport(byte): 0xff is reserved, 0xfe is unknown
DurationParseReport(byte) ==
    IF byte = 255 THEN Undefined
    ELSE IF byte = 254 THEN Some(Duration(0, "unknown"))
    ELSE IF byte >= 128 THEN Some(Duration((byte % 128) + 1, "minutes"))
    ELSE Some(Duration(byte % 128, "seconds"))

\* Duration.parseSet(byte): 0xff is the default duration
DurationParseSet(byte) ==
    IF byte = 255 THEN Some(Duration(0, "default"))
    ELSE IF byte >= 128 THEN Some(Duration((byte % 128) + 1, "minutes"))
    ELSE Some(Duration(byte % 128, "seconds"))

\* duration.serializeSet() throws for an unknown duration
SerializeSetThrows(d) == d.unit = "unknown"

\* duration.serializeSet()
DurationSerializeSet(d) ==
    IF d.unit = "default" THEN 255
    ELSE IF d.unit = "minutes" THEN 128 + ((d.value - 1) % 128)
    ELSE d.value % 128

(***************************************************************************)
(* Supervision results (core/consts/Transmission)                          *)
(* A result is Undefined (the command was not supervised) or               *)
(* Some([status |-> s]).                                                   *)
(***************************************************************************)
SupervisionStatus == { "NoSupport", "Working", "Fail", "Success" }

isSupervisionResult(r) == r # Undefined /\ r[1].status \in SupervisionStatus

\* supervisedCommandSucceeded(result): Success, or Working (the command is
\* being carried out and its outcome is reported through status updates)
supervisedCommandSucceeded(r) ==
    isSupervisionResult(r) /\ r[1].status \in { "Success", "Working" }


(***************************************************************************)
(* MultilevelSwitchCCAPI: the set-value handler                            *)
(***************************************************************************)
\* property names, as strings
PropTargetValue     == << "t", "a", "r", "g", "e", "t", "V", "a", "l", "u", "e" >>
PropCurrentValue    == << "c", "u", "r", "r", "e", "n", "t", "V", "a", "l", "u", "e" >>
PropRestorePrevious == << "r", "e", "s", "t", "o", "r", "e", "P", "r", "e", "v", "i", "o", "u", "s" >>
PropDuration        == << "d", "u", "r", "a", "t", "i", "o", "n" >>
PropUp              == << "U", "p" >>
PropOpen            == << "O", "p", "e", "n" >>
PropDown            == << "D", "o", "w", "n" >>

\* typeof value
Num(n)  == [ type |-> "number", num |-> n ]
Bool(b) == [ type |-> "boolean", num |-> IF b THEN 1 ELSE 0 ]
Str     == [ type |-> "string", num |-> 0 ]

\* the inputs of the handler that the model draws from
TargetNumbers == { 0, 80, 99, 100, 255 }
HandlerValues == { Num(n) : n \in TargetNumbers } \cup { Bool(TRUE), Bool(FALSE), Str }
HandlerProperties ==
    { PropTargetValue, PropRestorePrevious, PropUp, PropOpen, PropDown, PropDuration }
TransitionDurations == { Undefined, Some(Duration(5, "seconds")) }
Casts == { "singlecast", "multicast", "broadcast" }

\* the node a singlecast endpoint addresses
SinglecastNode == 1

\* this.endpoint.node.physicalNodes of a multicast group, in order
physicalNodes == [ i \in 1 .. MaxNodes |-> i ]

\* CCAPI.isSinglecast() / isMulticast()
isSinglecast(cast) == cast = "singlecast"
isMulticast(cast) == cast = "multicast"

\* CCAPI.tryGetValueDB(): the ValueDB of the endpoint's node, singlecast only
tryGetValueDB(cast) == IF isSinglecast(cast) THEN Some(SinglecastNode) ELSE Undefined

EffValueKeepsValue(property, value) == value

\* lines 297-300: restorePrevious is a write of targetValue = 255
EffProperty(property) ==
    IF property = PropRestorePrevious THEN PropTargetValue ELSE property
EffValue(property, value) ==
    IF property = PropRestorePrevious THEN Num(255) ELSE value

\* the options handed to withOptions() for the Set: status updates are
\* requested, and onUpdate registered, unless the value is 255
SetOptions(value) ==
    IF value # 255
    THEN [ requestStatusUpdates |-> TRUE, onUpdate |-> TRUE ]
    ELSE [ requestStatusUpdates |-> FALSE, onUpdate |-> FALSE ]

\* a setValue(currentValueValueId, value) on the ValueDB of node
Write(node, value, by) == [ node |-> node, value |-> value, by |-> by ]

RECURSIVE ApplyWrites(_, _)
ApplyWrites(db, ws) ==
    IF ws = << >> THEN db
    ELSE ApplyWrites([ db EXCEPT ![Head(ws).node] = Some(Head(ws).value) ], Tail(ws))

shouldUpdateOptimisticallyIgnoringOption(disable, r) ==
    r = Undefined \/ (isSupervisionResult(r) /\ r[1].status = "Success")

shouldUpdateOptimisticallyAnyResult(disable, r) ==
    (~disable /\ r = Undefined) \/ isSupervisionResult(r)

\* lines 348-353
shouldUpdateOptimistically(disable, r) ==
    (~disable /\ r = Undefined)
        \/ (isSupervisionResult(r) /\ r[1].status = "Success")

\* "Only update currentValue for valid target values"
ValidTargetValue(value) == value >= 0 /\ value <= 99

\* line 357-359: the optimistic update of a singlecast write
SinglecastWrites(cast, disable, r, value) ==
    IF shouldUpdateOptimistically(disable, r) /\ ValidTargetValue(value)
          /\ tryGetValueDB(cast) # Undefined
    THEN << Write(tryGetValueDB(cast)[1], value, "optimistic") >>
    ELSE << >>

SinglecastPollsAlways(r, value, duration) ==
    << [ property |-> PropCurrentValue,
         expected |-> IF value = 255 THEN Undefined ELSE Some(value),
         duration |-> duration ] >>

SinglecastPollsNotFor255(r, value, duration) ==
    IF ~supervisedCommandSucceeded(r)
    THEN << [ property |-> PropCurrentValue,
              expected |-> IF value = 255 THEN Undefined ELSE Some(value),
              duration |-> duration ] >>
    ELSE << >>

\* lines 364-373: the verification poll of a singlecast write
SinglecastPolls(r, value, duration) ==
    IF ~supervisedCommandSucceeded(r) \/ value = 255
    THEN << [ property |-> PropCurrentValue,
              expected |-> IF value = 255 THEN Undefined ELSE Some(value),
              duration |-> duration ] >>
    ELSE << >>

affectedNodesAll(supports) == physicalNodes

\* lines 378-383: the physical nodes whose endpoint supports the CC
affectedNodes(supports) == SelectSeq(physicalNodes, LAMBDA n : supports[n])

\* lines 376-394: the optimistic update of a multicast write
MulticastWrites(disable, supports, r, value) ==
    IF shouldUpdateOptimistically(disable, r) /\ ValidTargetValue(value)
    THEN [ i \in 1 .. Len(affectedNodes(supports)) |->
             Write(affectedNodes(supports)[i], value, "multicast") ]
    ELSE << >>

\* lines 395-404: a multicast write polls only for 255
MulticastPolls(disable, r, value, duration) ==
    IF ~(shouldUpdateOptimistically(disable, r) /\ ValidTargetValue(value))
          /\ value = 255
    THEN << [ property |-> PropCurrentValue, expected |-> Undefined,
              duration |-> duration ] >>
    ELSE << >>


\* the states the other machines rest in while one of them runs
NoCall == [ cast |-> "singlecast", property |-> PropTargetValue,
            value |-> Num(0), transitionDuration |-> Undefined ]

HandlerQuiet ==
    /\ disableOptimisticValueUpdate = FALSE
    /\ supportsCC = [ n \in Nodes |-> TRUE ]
    /\ valueDB = [ n \in Nodes |-> Undefined ]
    /\ pc = "idle"
    /\ call = NoCall
    /\ sent = << >>
    /\ result = Undefined
    /\ writes = << >>
    /\ polls = << >>
    /\ session = "none"
    /\ getPending = FALSE
    /\ thrown = Undefined

HandlerInit ==
    /\ disableOptimisticValueUpdate \in BOOLEAN
    /\ supportsCC \in [ Nodes -> BOOLEAN ]
    /\ valueDB = [ n \in Nodes |-> Undefined ]
    /\ pc = "idle"
    /\ call = NoCall
    /\ sent = << >>
    /\ result = Undefined
    /\ writes = << >>
    /\ polls = << >>
    /\ session = "none"
    /\ getPending = FALSE
    /\ thrown = Undefined

\* the Set command of the running call, as handed to sendCommand
SentSet == sent[1]

\* lines 291-344 and 408-448: the handler up to its first await
SetValueCall(cast, property, value, transitionDuration) ==
    /\ pc = "idle"
    /\ call' = [ cast |-> cast, property |-> property, value |-> value,
                 transitionDuration |-> transitionDuration ]
    /\ LET p == EffProperty(property)
           v == EffValue(property, value)
           duration == DurationFrom(transitionDuration)
       IN  IF p = PropTargetValue
           THEN IF v.type # "number"
                THEN /\ pc' = "threw"
                     /\ thrown' = Some("WrongValueType")
                     /\ sent' = << >>
                ELSE /\ pc' = "awaitSet"
                     /\ thrown' = Undefined
                     /\ sent' = << [ cc |-> "Set", targetValue |-> v.num,
                                     duration |-> duration,
                                     options |-> SetOptions(v.num) ] >>
           ELSE IF indexOf(switchTypeProperties, p) > -1
           THEN IF v.type # "boolean"
                THEN /\ pc' = "threw"
                     /\ thrown' = Some("WrongValueType")
                     /\ sent' = << >>
                ELSE /\ pc' = "awaitLevelChange"
                     /\ thrown' = Undefined
                     /\ sent' =
                          IF v.num = 1
                          THEN << [ cc |-> "StartLevelChange",
                                    direction |->
                                        IF JsMod(indexOf(switchTypeProperties, p), 2) = 0
                                        THEN "down" ELSE "up",
                                    ignoreStartLevel |-> TRUE,
                                    startLevel |->
                                        IF tryGetValueDB(cast) = Undefined
                                        THEN Undefined
                                        ELSE valueDB[tryGetValueDB(cast)[1]],
                                    duration |-> duration ] >>
                          ELSE << [ cc |-> "StopLevelChange" ] >>
           ELSE /\ pc' = "threw"
                /\ thrown' = Some("UnsupportedProperty")
                /\ sent' = << >>
    /\ result' = Undefined
    /\ writes' = << >>
    /\ polls' = << >>
    /\ UNCHANGED << disableOptimisticValueUpdate, supportsCC, valueDB, session,
                    getPending >>
    /\ UNCHANGED << cvars, svars, ivars >>

\* the results set() can resolve to: only a singlecast command is supervised
SetResults(cast) ==
    { Undefined } \cup
    ( IF isSinglecast(cast)
      THEN { Some([ status |-> s ]) : s \in SupervisionStatus }
      ELSE { } )

\* lines 346-407: the handler after set() resolved to r
SetValueResume(r) ==
    /\ pc = "awaitSet"
    /\ r \in SetResults(call.cast)
    /\ LET value == SentSet.targetValue
           duration == SentSet.duration
           ws == IF isSinglecast(call.cast)
                 THEN SinglecastWrites(call.cast, disableOptimisticValueUpdate, r, value)
                 ELSE IF isMulticast(call.cast)
                 THEN MulticastWrites(disableOptimisticValueUpdate, supportsCC, r, value)
                 ELSE << >>
           ps == IF isSinglecast(call.cast)
                 THEN SinglecastPolls(r, value, duration)
                 ELSE IF isMulticast(call.cast)
                 THEN MulticastPolls(disableOptimisticValueUpdate, r, value, duration)
                 ELSE << >>
       IN  /\ writes' = writes \o ws
           /\ valueDB' = ApplyWrites(valueDB, ws)
           /\ polls' = polls \o ps
    /\ result' = r
    /\ pc' = "done"
    \* the driver keeps the session, and calls onUpdate, only after Working
    /\ session' = IF SentSet.options.onUpdate /\ r = Some([ status |-> "Working" ])
                  THEN "open" ELSE "none"
    /\ UNCHANGED << disableOptimisticValueUpdate, supportsCC, call, sent,
                    getPending, thrown >>
    /\ UNCHANGED << cvars, svars, ivars >>

\* set() rejected (the command could not be sent): the handler throws
SetValueReject ==
    /\ pc = "awaitSet"
    /\ pc' = "threw"
    /\ thrown' = Some("SendFailed")
    /\ UNCHANGED << disableOptimisticValueUpdate, supportsCC, valueDB, call, sent,
                    result, writes, polls, session, getPending >>
    /\ UNCHANGED << cvars, svars, ivars >>

\* lines 437-445: startLevelChange() / stopLevelChange() resolved
LevelChangeResume(r) ==
    /\ pc = "awaitLevelChange"
    /\ r \in SetResults(call.cast)
    /\ result' = r
    /\ pc' = "done"
    /\ UNCHANGED << disableOptimisticValueUpdate, supportsCC, valueDB, call, sent,
                    writes, polls, session, getPending, thrown >>
    /\ UNCHANGED << cvars, svars, ivars >>

OnUpdateWritesUnlessWorking(cast, status, value) ==
    IF status # "Working" /\ tryGetValueDB(cast) # Undefined
    THEN << Write(tryGetValueDB(cast)[1], value, "onUpdate") >>
    ELSE << >>

\* lines 325-331: what onUpdate writes
OnUpdateWrites(cast, status, value) ==
    IF status = "Success" /\ tryGetValueDB(cast) # Undefined
    THEN << Write(tryGetValueDB(cast)[1], value, "onUpdate") >>
    ELSE << >>

\* lines 332-340 and 196-210: on Fail onUpdate calls get(), which sends a Get
\* when the API is singlecast (assertSupportsCommand) and rejects otherwise
OnUpdateSends(cast, status) ==
    IF status = "Fail" /\ isSinglecast(cast)
    THEN << [ cc |-> "Get" ] >>
    ELSE << >>

\* lines 324-341: the driver delivers a later status of the supervised Set
OnUpdate(status) ==
    /\ session = "open"
    /\ status \in SupervisionStatus
    /\ LET ws == OnUpdateWrites(call.cast, status, SentSet.targetValue)
           ss == OnUpdateSends(call.cast, status)
       IN  /\ writes' = writes \o ws
           /\ valueDB' = ApplyWrites(valueDB, ws)
           /\ sent' = sent \o ss
           /\ getPending' = (ss # << >>)
    \* Working announces more updates; every other status ends the session
    /\ session' = IF status = "Working" THEN "open" ELSE "closed"
    /\ UNCHANGED << disableOptimisticValueUpdate, supportsCC, pc, call, result,
                    polls, thrown >>
    /\ UNCHANGED << cvars, svars, ivars >>

\* the levels a Report answering the Get may carry
ReportedLevels == { 0, 50 }

\* lines 206-213: the Get was answered; the driver persists the Report
GetResolve(level) ==
    /\ getPending
    /\ level \in ReportedLevels
    /\ getPending' = FALSE
    /\ valueDB' = [ valueDB EXCEPT ![SinglecastNode] = Some(level) ]
    /\ UNCHANGED << disableOptimisticValueUpdate, supportsCC, pc, call, sent,
                    result, writes, polls, session, thrown >>
    /\ UNCHANGED << cvars, svars, ivars >>

\* line 339: get() rejected; the rejection is caught and dropped
GetReject ==
    /\ getPending
    /\ getPending' = FALSE
    /\ UNCHANGED << disableOptimisticValueUpdate, supportsCC, valueDB, pc, call,
                    sent, result, writes, polls, session, thrown >>
    /\ UNCHANGED << cvars, svars, ivars >>

\* the handler returned or threw and nothing of the call is pending: the
\* application may write again
Return ==
    /\ pc \in { "done", "threw" }
    /\ session # "open"
    /\ ~getPending
    /\ pc' = "idle"
    /\ call' = NoCall
    /\ sent' = << >>
    /\ result' = Undefined
    /\ writes' = << >>
    /\ polls' = << >>
    /\ session' = "none"
    /\ thrown' = Undefined
    /\ UNCHANGED << disableOptimisticValueUpdate, supportsCC, valueDB, getPending >>
    /\ UNCHANGED << cvars, svars, ivars >>

HandlerNext ==
    \/ \E cast \in Casts, property \in HandlerProperties, value \in HandlerValues,
          td \in TransitionDurations :
            SetValueCall(cast, property, value, td)
    \/ \E r \in SetResults("singlecast") : SetValueResume(r)
    \/ SetValueReject
    \/ \E r \in SetResults("singlecast") : LevelChangeResume(r)
    \/ \E status \in SupervisionStatus : OnUpdate(status)
    \/ \E level \in ReportedLevels : GetResolve(level)
    \/ GetReject
    \/ Return


(***************************************************************************)
(* The commands: constructors (from options, and from a received payload)  *)
(* and serialize()                                                         *)
(***************************************************************************)
\* the longest payload the model receives
MaxPayloadLen == 3

\* @implementedVersion(4)
ImplementedVersion == 4
Versions == 1 .. ImplementedVersion

\* Buffer.from([...]): every element is stored modulo 256
Byte(x) == x % 256

\* parseNumber (core/values/Primitive): 0 .. 99, 0xff is 99, else undefined
parseNumber(val) ==
    IF val <= 99 THEN [ kind |-> "number", n |-> val ]
    ELSE IF val = 255 THEN [ kind |-> "number", n |-> 99 ]
    ELSE [ kind |-> "undefined", n |-> 0 ]

\* unknownNumber
unknownNumber == [ kind |-> "unknown", n |-> 0 ]

\* parseMaybeNumber: 0xfe is the unknown marker
parseMaybeNumber(val) == IF val = 254 THEN unknownNumber ELSE parseNumber(val)

\* a field that was never assigned, or holds undefined
NoNumber == [ kind |-> "undefined", n |-> 0 ]

\* enum LevelChangeDirection
LevelChangeDirection == [ up |-> 0, down |-> 1 ]

\* ---- MultilevelSwitchCCSet ----
\* lines 585-586: new MultilevelSwitchCCSet(host, { targetValue, duration })
SetFromOptions(version, targetValue, duration) ==
    [ kind |-> "Set", version |-> version,
      targetValue |-> targetValue, duration |-> DurationFrom(duration) ]

\* lines 593-600: whether serialize() throws
SetSerializeThrows(c) ==
    c.version >= 2 /\ c.duration # Undefined /\ SerializeSetThrows(c.duration[1])

\* lines 593-600: the payload serialize() produces
SetSerialize(c) ==
    << Byte(c.targetValue) >> \o
    ( IF c.version >= 2 /\ c.duration # Undefined
      THEN << DurationSerializeSet(c.duration[1]) >>
      ELSE << >> )

\* lines 577-583: the constructor on a received payload; a failed
\* validatePayload throws before a field is assigned
SetDeserialize(version, payload) ==
    IF ~(Len(payload) >= 1)
    THEN [ kind |-> "Set", error |-> TRUE,
           targetValue |-> Undefined, duration |-> Undefined ]
    ELSE [ kind |-> "Set", error |-> FALSE,
           targetValue |-> Some(payload[1]),
           duration |-> IF Len(payload) >= 2
                        THEN DurationParseReport(payload[2]) ELSE Undefined ]

\* ---- MultilevelSwitchCCReport ----
\* lines 622-629
ReportDeserialize(version, payload) ==
    IF ~(Len(payload) >= 1)
    THEN [ kind |-> "Report", error |-> TRUE, currentValue |-> NoNumber,
           targetValue |-> NoNumber, duration |-> Undefined ]
    ELSE [ kind |-> "Report", error |-> FALSE,
           currentValue |-> parseMaybeNumber(payload[1]),
           targetValue |-> IF version >= 4 /\ Len(payload) >= 3
                           THEN parseNumber(payload[2]) ELSE NoNumber,
           duration |-> IF version >= 4 /\ Len(payload) >= 3
                        THEN DurationParseReport(payload[3]) ELSE Undefined ]

\* ---- MultilevelSwitchCCStartLevelChange ----
\* lines 713-716: new MultilevelSwitchCCStartLevelChange(host, options);
\* startLevel is Undefined or Some(n)
StartLevelChangeFromOptions(version, direction, ignoreStartLevel, startLevel, duration) ==
    [ kind |-> "StartLevelChange", version |-> version,
      duration |-> DurationFrom(duration),
      ignoreStartLevel |-> ignoreStartLevel,
      startLevel |-> IF startLevel = Undefined THEN 0 ELSE startLevel[1],
      direction |-> direction ]

\* lines 725-735: whether serialize() throws
StartLevelChangeSerializeThrows(c) ==
    c.version >= 2 /\ c.duration # Undefined /\ SerializeSetThrows(c.duration[1])

\* lines 725-735: the payload serialize() produces
StartLevelChangeSerialize(c) ==
    << LevelChangeDirection[c.direction] * 64
         + (IF c.ignoreStartLevel THEN 32 ELSE 0),
       Byte(c.startLevel) >> \o
    ( IF c.version >= 2 /\ c.duration # Undefined
      THEN << DurationSerializeSet(c.duration[1]) >>
      ELSE << >> )

StartLevelChangeDeserializeMin1(version, payload) ==
    IF ~(Len(payload) >= 1)
    THEN [ kind |-> "StartLevelChange", error |-> TRUE,
           ignoreStartLevel |-> Undefined, direction |-> Undefined,
           startLevel |-> Undefined, duration |-> Undefined ]
    ELSE [ kind |-> "StartLevelChange", error |-> FALSE,
           ignoreStartLevel |-> Some((payload[1] \div 32) % 2 = 1),
           direction |-> Some(IF (payload[1] \div 64) % 2 = 1 THEN "down" ELSE "up"),
           startLevel |-> At(payload, 1),
           duration |-> IF Len(payload) >= 3
                        THEN DurationParseSet(payload[3]) ELSE Undefined ]

\* lines 700-711
StartLevelChangeDeserialize(version, payload) ==
    IF ~(Len(payload) >= 2)
    THEN [ kind |-> "StartLevelChange", error |-> TRUE,
           ignoreStartLevel |-> Undefined, direction |-> Undefined,
           startLevel |-> Undefined, duration |-> Undefined ]
    ELSE [ kind |-> "StartLevelChange", error |-> FALSE,
           ignoreStartLevel |-> Some((payload[1] \div 32) % 2 = 1),
           direction |-> Some(IF (payload[1] \div 64) % 2 = 1 THEN "down" ELSE "up"),
           startLevel |-> Some(payload[2]),
           duration |-> IF Len(payload) >= 3
                        THEN DurationParseSet(payload[3]) ELSE Undefined ]

\* ---- MultilevelSwitchCCSupportedReport ----
\* lines 766-767
SupportedReportDeserialize(version, payload) ==
    IF ~(Len(payload) >= 1)
    THEN [ kind |-> "SupportedReport", error |-> TRUE, switchType |-> Undefined ]
    ELSE [ kind |-> "SupportedReport", error |-> FALSE,
           switchType |-> Some(payload[1] % 32) ]

\* the constructor the driver picks for a received command
Deserialize(kind, version, payload) ==
    CASE kind = "Set" -> SetDeserialize(version, payload)
      [] kind = "Report" -> ReportDeserialize(version, payload)
      [] kind = "StartLevelChange" -> StartLevelChangeDeserialize(version, payload)
      [] kind = "SupportedReport" -> SupportedReportDeserialize(version, payload)


\* CommandClass.persistValues over the @ccValue properties of a Report, in
\* the order they are declared (lines 643-653): undefined is not stored
ReportPersisted(currentValue, targetValue, duration) ==
    ( IF targetValue.kind # "undefined"
      THEN << [ property |-> "targetValue", value |-> targetValue ] >> ELSE << >> )
    \o
    ( IF duration # Undefined
      THEN << [ property |-> "duration", value |-> duration[1] ] >> ELSE << >> )
    \o
    ( IF currentValue.kind # "undefined"
      THEN << [ property |-> "currentValue", value |-> currentValue ] >> ELSE << >> )

ReportPersistValuesKeepsUnknown(c, preserve) ==
    ReportPersisted(c.currentValue, c.targetValue, c.duration)

\* lines 632-641: MultilevelSwitchCCReport.persistValues
ReportPersistValues(c, preserve) ==
    ReportPersisted(
        IF c.currentValue = unknownNumber /\ ~preserve THEN NoNumber ELSE c.currentValue,
        c.targetValue, c.duration)

\* lines 772-779: MultilevelSwitchCCSupportedReport.persistValues, the value
SupportedReportPersistValues(c) ==
    << [ property |-> "switchType", value |-> c.switchType[1] ] >>

\* what persistValues stores for a decoded command; Set and StartLevelChange
\* declare no @ccValue
PersistValues(c, preserve) ==
    CASE c.kind = "Report" -> ReportPersistValues(c, preserve)
      [] c.kind = "SupportedReport" -> SupportedReportPersistValues(c)
      [] OTHER -> << >>

(***************************************************************************)
(* The codec machine: a command is built and serialized, or a payload is   *)
(* received; the payload is decoded and the command persisted              *)
(***************************************************************************)
\* the inputs the model draws from
CodecTargetValues == { 0, 99, 255 }
CodecStartLevels == { Undefined, Some(0), Some(50), Some(255) }
CodecDurations ==
    { Undefined, Some(Duration(0, "seconds")), Some(Duration(127, "seconds")),
      Some(Duration(1, "minutes")), Some(Duration(127, "minutes")),
      Some(Duration(0, "default")), Some(Duration(0, "unknown")) }
CodecBytes == { 0, 50, 96, 100, 254, 255 }
CodecKinds == { "Set", "Report", "StartLevelChange", "SupportedReport" }

RECURSIVE Payloads(_)
Payloads(n) ==
    IF n = 0 THEN { << >> }
    ELSE Payloads(n - 1) \cup
         { Append(p, b) : p \in { q \in Payloads(n - 1) : Len(q) = n - 1 },
                          b \in CodecBytes }

\* the payloads the model receives
CodecPayloads == Payloads(MaxPayloadLen)

NoCmd == [ kind |-> "none" ]
NoWire == [ kind |-> "none", version |-> 1, payload |-> << >> ]

CodecQuiet ==
    /\ preserveUnknownValues = FALSE
    /\ cpc = "idle"
    /\ cmd = NoCmd
    /\ wire = NoWire
    /\ decoded = NoCmd
    /\ persisted = << >>

CodecInit ==
    /\ preserveUnknownValues \in BOOLEAN
    /\ cpc = "idle"
    /\ cmd = NoCmd
    /\ wire = NoWire
    /\ decoded = NoCmd
    /\ persisted = << >>

ConstructSet(version, targetValue, duration) ==
    /\ cpc = "idle"
    /\ cmd' = SetFromOptions(version, targetValue, duration)
    /\ cpc' = "constructed"
    /\ UNCHANGED << preserveUnknownValues, wire, decoded, persisted >>
    /\ UNCHANGED << hvars, svars, ivars >>

ConstructStartLevelChange(version, direction, ignoreStartLevel, startLevel, duration) ==
    /\ cpc = "idle"
    \* the options type: startLevel may be left out only with ignoreStartLevel
    /\ ignoreStartLevel \/ startLevel # Undefined
    /\ cmd' = StartLevelChangeFromOptions(version, direction, ignoreStartLevel,
                                          startLevel, duration)
    /\ cpc' = "constructed"
    /\ UNCHANGED << preserveUnknownValues, wire, decoded, persisted >>
    /\ UNCHANGED << hvars, svars, ivars >>

\* serialize() of the built command
Serialize ==
    /\ cpc = "constructed"
    /\ IF cmd.kind = "Set"
       THEN IF SetSerializeThrows(cmd)
            THEN cpc' = "serializeThrew" /\ wire' = wire
            ELSE /\ cpc' = "serialized"
                 /\ wire' = [ kind |-> "Set", version |-> cmd.version,
                              payload |-> SetSerialize(cmd) ]
       ELSE IF StartLevelChangeSerializeThrows(cmd)
            THEN cpc' = "serializeThrew" /\ wire' = wire
            ELSE /\ cpc' = "serialized"
                 /\ wire' = [ kind |-> "StartLevelChange", version |-> cmd.version,
                              payload |-> StartLevelChangeSerialize(cmd) ]
    /\ UNCHANGED << preserveUnknownValues, cmd, decoded, persisted >>
    /\ UNCHANGED << hvars, svars, ivars >>

\* a command of the node arrives
Receive(kind, version, payload) ==
    /\ cpc = "idle"
    /\ wire' = [ kind |-> kind, version |-> version, payload |-> payload ]
    /\ cpc' = "received"
    /\ UNCHANGED << preserveUnknownValues, cmd, decoded, persisted >>
    /\ UNCHANGED << hvars, svars, ivars >>

\* the constructor runs on the payload
Decode ==
    /\ cpc \in { "serialized", "received" }
    /\ decoded' = Deserialize(wire.kind, wire.version, wire.payload)
    /\ cpc' = "decoded"
    /\ UNCHANGED << preserveUnknownValues, cmd, wire, persisted >>
    /\ UNCHANGED << hvars, svars, ivars >>

\* the decoded command is persisted
Persist ==
    /\ cpc = "decoded"
    /\ ~decoded.error
    /\ persisted' = PersistValues(decoded, preserveUnknownValues)
    /\ cpc' = "persisted"
    /\ UNCHANGED << preserveUnknownValues, cmd, wire, decoded >>
    /\ UNCHANGED << hvars, svars, ivars >>

\* the constructor threw: the command is dropped
Drop ==
    /\ cpc = "decoded"
    /\ decoded.error
    /\ cpc' = "dropped"
    /\ UNCHANGED << preserveUnknownValues, cmd, wire, decoded, persisted >>
    /\ UNCHANGED << hvars, svars, ivars >>

CodecReset ==
    /\ cpc \in { "persisted", "dropped", "serializeThrew" }
    /\ cpc' = "idle"
    /\ cmd' = NoCmd
    /\ wire' = NoWire
    /\ decoded' = NoCmd
    /\ persisted' = << >>
    /\ UNCHANGED preserveUnknownValues
    /\ UNCHANGED << hvars, svars, ivars >>

CodecNext ==
    \/ \E version \in Versions, targetValue \in CodecTargetValues,
          duration \in CodecDurations :
            ConstructSet(version, targetValue, duration)
    \/ \E version \in Versions, direction \in { "up", "down" },
          ignoreStartLevel \in BOOLEAN, startLevel \in CodecStartLevels,
          duration \in CodecDurations :
            ConstructStartLevelChange(version, direction, ignoreStartLevel,
                                      startLevel, duration)
    \/ Serialize
    \/ \E kind \in CodecKinds, version \in Versions, payload \in CodecPayloads :
            Receive(kind, version, payload)
    \/ Decode
    \/ Persist
    \/ Drop
    \/ CodecReset


(***************************************************************************)
(* The switch type machine: a SupportedReport is received and persisted,   *)
(* which creates the metadata of the two level change values               *)
(***************************************************************************)
\* lines 545-558: the properties ensureMetadata is called for, in order
createMetadataForLevelChangeActions(st) ==
    << levelChangeUpProperty(st), levelChangeDownProperty(st) >>

\* the payloads a SupportedReport arrives with: none, or one byte
SupportedReportPayloads == { << >> } \cup { << b >> : b \in 0 .. 255 }

SwitchQuiet ==
    /\ spc = "idle"
    /\ switchType = Undefined
    /\ metadata = { }
    /\ created = << >>

SwitchInit == SwitchQuiet

\* lines 506-510: the interview of a V1 or V2 node creates the Down/Up actions
InterviewCreatesActions ==
    /\ spc = "idle"
    /\ created' = createMetadataForLevelChangeActions(2)
    /\ metadata' = metadata \cup { created'[1], created'[2] }
    /\ spc' = "interviewed"
    /\ UNCHANGED switchType
    /\ UNCHANGED << hvars, cvars, ivars >>

\* lines 760-779: the constructor and persistValues of a SupportedReport
ReceiveSupportedReport(payload) ==
    /\ spc = "idle"
    /\ LET c == SupportedReportDeserialize(ImplementedVersion, payload)
       IN  IF c.error
           THEN /\ spc' = "dropped"
                /\ created' = << >>
                /\ UNCHANGED << switchType, metadata >>
           ELSE /\ spc' = "persisted"
                /\ switchType' = c.switchType
                /\ created' = createMetadataForLevelChangeActions(c.switchType[1])
                /\ metadata' = metadata \cup { created'[1], created'[2] }
    /\ UNCHANGED << hvars, cvars, ivars >>

SwitchReset ==
    /\ spc # "idle"
    /\ spc' = "idle"
    /\ created' = << >>
    /\ UNCHANGED << switchType, metadata >>
    /\ UNCHANGED << hvars, cvars, ivars >>

SwitchNext ==
    \/ InterviewCreatesActions
    \/ \E payload \in SupportedReportPayloads : ReceiveSupportedReport(payload)
    \/ SwitchReset

(***************************************************************************)
(* ZWaveNode.interviewStage                                                *)
(***************************************************************************)
InterviewStageNodeInfoSecond ==
    [ None |-> 0, ProtocolInfo |-> 1, NodeInfo |-> 2, Probe |-> 3, WakeUp |-> 4,
      ManufacturerSpecific1 |-> 5, NodePlusInfo |-> 6, SecurityReport |-> 7,
      ManufacturerSpecific2 |-> 8, Versions |-> 9, Instances |-> 10,
      Static |-> 11, CacheLoad |-> 12, Associations |-> 13, Neighbors |-> 14,
      Session |-> 15, Dynamic |-> 16, Configuration |-> 17, Complete |-> 18 ]

\* enum InterviewStage
InterviewStage ==
    [ None |-> 0, ProtocolInfo |-> 1, Probe |-> 2, WakeUp |-> 3,
      ManufacturerSpecific1 |-> 4, NodeInfo |-> 5, NodePlusInfo |-> 6,
      SecurityReport |-> 7, ManufacturerSpecific2 |-> 8, Versions |-> 9,
      Instances |-> 10, Static |-> 11, CacheLoad |-> 12, Associations |-> 13,
      Neighbors |-> 14, Session |-> 15, Dynamic |-> 16, Configuration |-> 17,
      Complete |-> 18 ]

InterviewStages == { InterviewStage[name] : name \in DOMAIN InterviewStage }

InterviewQuiet ==
    /\ interviewStage = InterviewStage.None
    /\ interviewing = FALSE
    /\ lastOp = "none"

InterviewInit == InterviewQuiet

\* interview() is called
InterviewStart ==
    /\ ~interviewing
    /\ interviewing' = TRUE
    /\ lastOp' = "interview"
    /\ UNCHANGED interviewStage
    /\ UNCHANGED << hvars, cvars, svars >>

\* interview() completes the stage after the one last completed
InterviewStep ==
    /\ interviewing
    /\ interviewStage < InterviewStage.Complete
    /\ interviewStage' = interviewStage + 1
    /\ lastOp' = "interview"
    /\ UNCHANGED interviewing
    /\ UNCHANGED << hvars, cvars, svars >>

\* interview() returns
InterviewEnd ==
    /\ interviewing
    /\ interviewing' = FALSE
    /\ lastOp' = "interview"
    /\ UNCHANGED interviewStage
    /\ UNCHANGED << hvars, cvars, svars >>

\* handleCommand(command)
HandleCommand ==
    /\ lastOp' = "handleCommand"
    /\ UNCHANGED << interviewStage, interviewing >>
    /\ UNCHANGED << hvars, cvars, svars >>

\* node.interviewStage = stage: the field is public and not readonly
AssignInterviewStage(stage) ==
    /\ stage \in InterviewStages
    /\ interviewStage' = stage
    /\ lastOp' = "assign"
    /\ UNCHANGED interviewing
    /\ UNCHANGED << hvars, cvars, svars >>

\* the re-interview of the node: the stage is reset
ReInterview ==
    /\ ~interviewing
    /\ interviewStage' = InterviewStage.None
    /\ lastOp' = "reinterview"
    /\ UNCHANGED interviewing
    /\ UNCHANGED << hvars, cvars, svars >>

InterviewNext ==
    \/ InterviewStart
    \/ InterviewStep
    \/ InterviewEnd
    \/ HandleCommand
    \/ \E stage \in InterviewStages : AssignInterviewStage(stage)
    \/ ReInterview

(***************************************************************************)
(* Specifications                                                          *)
(***************************************************************************)
\* the set-value handler
Init == HandlerInit /\ CodecQuiet /\ SwitchQuiet /\ InterviewQuiet
Next == HandlerNext
Spec == Init /\ [][Next]_vars

\* the command codec
InitCodec == HandlerQuiet /\ CodecInit /\ SwitchQuiet /\ InterviewQuiet
SpecCodec == InitCodec /\ [][CodecNext]_vars

\* the switch type
InitSwitch == HandlerQuiet /\ CodecQuiet /\ SwitchInit /\ InterviewQuiet
SpecSwitch == InitSwitch /\ [][SwitchNext]_vars

\* the interview stage
InitInterview == HandlerQuiet /\ CodecQuiet /\ SwitchQuiet /\ InterviewInit
SpecInterview == InitInterview /\ [][InterviewNext]_vars


(***************************************************************************)
(* The claims about the set-value handler (specification Spec)             *)
(***************************************************************************)
\* the running call is a write of targetValue whose Set was sent
TargetValueCall ==
    /\ pc \in { "awaitSet", "done" }
    /\ EffProperty(call.property) = PropTargetValue

\* the handler returned from a singlecast write of targetValue
SinglecastWriteDone ==
    /\ pc = "done"
    /\ EffProperty(call.property) = PropTargetValue
    /\ isSinglecast(call.cast)

Status(s) == Some([ status |-> s ])

\* the setValue calls the handler made after the command, before returning
OptimisticWrites == SelectSeq(writes, LAMBDA w : w.by \in { "optimistic", "multicast" })

\* the verification poll of the running call
VerificationPoll ==
    [ property |-> PropCurrentValue, expected |-> Some(SentSet.targetValue),
      duration |-> DurationFrom(call.transitionDuration) ]

\* C1: a singlecast write of targetValue = 80 whose Set was supervised and
\* reported Success updates the ValueDB entry currentValue of the endpoint
\* to 80 exactly once and schedules no verification poll.
C1_SupervisedSuccessUpdatesOnce ==
    ( SinglecastWriteDone /\ SentSet.targetValue = 80 /\ result = Status("Success") )
        => /\ writes = << Write(SinglecastNode, 80, "optimistic") >>
           /\ valueDB[SinglecastNode] = Some(80)
           /\ polls = << >>

C1_Witness ==
    /\ SinglecastWriteDone
    /\ SentSet.targetValue = 80
    /\ result = Status("Success")
    /\ Len(writes) = 1

\* C2 as stated: for a singlecast write of a value in 0 .. 99, a supervised
\* Success updates currentValue and schedules no poll; in every other case
\* the write does not update currentValue and schedules the verification
\* poll (currentValue, the written value expected, the transition duration).
C2_Original ==
    ( SinglecastWriteDone /\ SentSet.targetValue \in 0 .. 99 )
        => IF result = Status("Success")
           THEN /\ OptimisticWrites
                     = << Write(SinglecastNode, SentSet.targetValue, "optimistic") >>
                /\ polls = << >>
           ELSE /\ OptimisticWrites = << >>
                /\ polls = << VerificationPoll >>

\* C2, amended: a supervised Success updates currentValue and schedules no
\* poll; an unsupervised result schedules the verification poll and updates
\* currentValue exactly when disableOptimisticValueUpdate is unset; status
\* Fail or NoSupport schedules the verification poll and does not update;
\* status Working does not update.
C2_UpdateOrPoll ==
    ( SinglecastWriteDone /\ SentSet.targetValue \in 0 .. 99 )
        => LET update == << Write(SinglecastNode, SentSet.targetValue, "optimistic") >>
           IN  CASE result = Status("Success") ->
                        OptimisticWrites = update /\ polls = << >>
                 [] result = Undefined ->
                        /\ polls = << VerificationPoll >>
                        /\ OptimisticWrites
                             = IF disableOptimisticValueUpdate THEN << >> ELSE update
                 [] result \in { Status("Fail"), Status("NoSupport") } ->
                        OptimisticWrites = << >> /\ polls = << VerificationPoll >>
                 [] result = Status("Working") ->
                        OptimisticWrites = << >>

C2_Witness ==
    /\ SinglecastWriteDone
    /\ SentSet.targetValue = 99
    /\ result = Undefined
    /\ ~disableOptimisticValueUpdate
    /\ Len(writes) = 1
    /\ polls = << VerificationPoll >>
    /\ call.transitionDuration # Undefined

\* C8: with disableOptimisticValueUpdate set, a write of targetValue makes
\* the optimistic update only after a supervised Success, and an
\* unsupervised Set writes nothing; with the option unset, an unsupervised
\* singlecast Set of a value in 0 .. 99 updates currentValue; a supervised
\* status other than Success never makes the optimistic update.
C8_OptimisticUpdateOption ==
    ( pc = "done" /\ EffProperty(call.property) = PropTargetValue )
        => /\ disableOptimisticValueUpdate
                => /\ OptimisticWrites # << >> => result = Status("Success")
                   /\ result = Undefined => writes = << >>
           /\ ( ~disableOptimisticValueUpdate /\ result = Undefined
                  /\ isSinglecast(call.cast) /\ SentSet.targetValue \in 0 .. 99 )
                => /\ writes = << Write(SinglecastNode, SentSet.targetValue,
                                        "optimistic") >>
                   /\ valueDB[SinglecastNode] = Some(SentSet.targetValue)
           /\ ( result # Undefined /\ result # Status("Success") )
                => OptimisticWrites = << >>

C8_Witness ==
    /\ pc = "done"
    /\ EffProperty(call.property) = PropTargetValue
    /\ disableOptimisticValueUpdate
    /\ result = Undefined
    /\ SentSet.targetValue = 80
    /\ isSinglecast(call.cast)
    /\ writes = << >>
    /\ polls # << >>

\* C9: every write of currentValue the set-value handler makes (after the
\* command, for a multicast, in onUpdate) carries a value in 0 .. 99.
C9_OnlyValidValuesStored ==
    \A i \in 1 .. Len(writes) : writes[i].value \in 0 .. 99

\* C10: a singlecast write of targetValue = 255 requests no supervision
\* status updates, never writes currentValue, and schedules a poll of
\* currentValue with no expected value whatever the result, a supervised
\* Success included.
C10_RestoreAlwaysPolls ==
    ( TargetValueCall /\ isSinglecast(call.cast) /\ SentSet.targetValue = 255 )
        => /\ ~SentSet.options.requestStatusUpdates
           /\ ~SentSet.options.onUpdate
           /\ session # "open"
           /\ writes = << >>
           /\ pc = "done"
                => polls = << [ property |-> PropCurrentValue,
                                expected |-> Undefined,
                                duration |-> DurationFrom(call.transitionDuration) ] >>

C10_Witness ==
    /\ SinglecastWriteDone
    /\ SentSet.targetValue = 255
    /\ result = Status("Success")
    /\ writes = << >>
    /\ Len(polls) = 1
    /\ polls[1].expected = Undefined


(***************************************************************************)
(* The claims about the command codec (specification SpecCodec)            *)
(***************************************************************************)
\* a built command was serialized and its payload decoded
RoundTripDone ==
    /\ cpc \in { "decoded", "persisted", "dropped" }
    /\ cmd.kind # "none"

\* C3: for Set and StartLevelChange, at every version 1 .. 4 and for every
\* assignment of the fields, decoding the payload serialize() produced
\* yields a command with the same field values, the duration included.
C3_RoundTrip ==
    RoundTripDone
        => /\ ~decoded.error
           /\ decoded.duration = cmd.duration
           /\ IF cmd.kind = "Set"
              THEN decoded.targetValue = Some(cmd.targetValue)
              ELSE /\ decoded.direction = Some(cmd.direction)
                   /\ decoded.ignoreStartLevel = Some(cmd.ignoreStartLevel)
                   /\ decoded.startLevel = Some(cmd.startLevel)

\* the least payload length each constructor accepts
MinPayloadLen(kind) == IF kind = "StartLevelChange" THEN 2 ELSE 1

\* a payload shorter than the minimum went through the constructor
ShortPayloadDecoded ==
    /\ cpc \in { "decoded", "persisted", "dropped" }
    /\ Len(wire.payload) < MinPayloadLen(wire.kind)

\* no field of the decoded command was assigned
NoFieldAssigned(c) ==
    CASE c.kind = "Set" -> c.targetValue = Undefined /\ c.duration = Undefined
      [] c.kind = "Report" ->
            /\ c.currentValue = NoNumber
            /\ c.targetValue = NoNumber
            /\ c.duration = Undefined
      [] c.kind = "StartLevelChange" ->
            /\ c.ignoreStartLevel = Undefined
            /\ c.direction = Undefined
            /\ c.startLevel = Undefined
            /\ c.duration = Undefined
      [] c.kind = "SupportedReport" -> c.switchType = Undefined

\* C4: a payload shorter than the minimum (1 byte for Set, Report and
\* SupportedReport, 2 bytes for StartLevelChange) makes the constructor
\* fail before a field is assigned: no command is persisted and nothing
\* is stored in the ValueDB.
C4_ShortPayloadRejected ==
    ShortPayloadDecoded
        => /\ decoded.error
           /\ NoFieldAssigned(decoded)
           /\ cpc # "persisted"
           /\ persisted = << >>

C4_Witness ==
    /\ cpc = "dropped"
    /\ wire.kind = "StartLevelChange"
    /\ Len(wire.payload) = 1
    /\ decoded.error


(***************************************************************************)
(* The claims about the switch type (specification SpecSwitch)             *)
(***************************************************************************)
\* C5: for every switch type a SupportedReport carries (0 .. 31) the two
\* level change values created are named after the switch type: down is
\* the part of its name before "/", up the part after it, and a name
\* without "/" (not supported, unknown) gives Down and Up; the up name is
\* accepted by the levelChangeUp matcher and rejected by the
\* levelChangeDown matcher, and conversely for the down name.
C5_LevelChangeNames ==
    spc = "persisted"
        => LET st == switchType[1]
               name == getEnumMemberName(st)
               up == created[1]
               down == created[2]
           IN  /\ st \in SwitchTypeValues
               /\ up # Undefined /\ down # Undefined
               /\ includes(name, "/") <=> st \in 1 .. 7
               /\ IF includes(name, "/")
                  THEN /\ down[1] \o << "/" >> \o up[1] = name
                       /\ ~includes(down[1], "/")
                       /\ ~includes(up[1], "/")
                  ELSE down[1] = PropDown /\ up[1] = PropUp
               /\ levelChangeUpIs(up) /\ ~levelChangeDownIs(up)
               /\ levelChangeDownIs(down) /\ ~levelChangeUpIs(down)
               /\ { up, down } \subseteq metadata

C5_Witness ==
    /\ spc = "persisted"
    /\ switchType = Some(3)
    /\ created = << Some(PropOpen), Some(<< "C", "l", "o", "s", "e" >>) >>
    /\ Some(PropUp) \in metadata

StageOrder ==
    << "None", "ProtocolInfo", "Probe", "WakeUp", "ManufacturerSpecific1",
       "NodeInfo", "NodePlusInfo", "SecurityReport", "ManufacturerSpecific2",
       "Versions", "Instances", "Static", "CacheLoad", "Associations",
       "Neighbors", "Session", "Dynamic", "Configuration", "Complete" >>

RestoreCall(property) ==
    /\ pc # "idle"
    /\ call.property = property
    /\ property = PropTargetValue => call.value = Num(255)

\* what a write of targetValue = 255 does: one Set(255) without supervision
\* options, no wrong-value-type error, no write of currentValue, and after
\* the command one poll of currentValue with no expected value (none for a
\* broadcast)
RestoreOutcome ==
    /\ thrown # Some("WrongValueType")
    /\ pc = "threw" => thrown = Some("SendFailed")
    /\ sent = << [ cc |-> "Set", targetValue |-> 255,
                   duration |-> DurationFrom(call.transitionDuration),
                   options |-> [ requestStatusUpdates |-> FALSE,
                                 onUpdate |-> FALSE ] ] >>
    /\ writes = << >>
    /\ session # "open"
    /\ polls = IF pc = "done" /\ call.cast \in { "singlecast", "multicast" }
               THEN << [ property |-> PropCurrentValue, expected |-> Undefined,
                         duration |-> DurationFrom(call.transitionDuration) ] >>
               ELSE << >>

\* C11: a write of restorePrevious, whatever value is supplied (true, false,
\* a non-boolean), sends the same Set(255), makes the same ValueDB writes and
\* schedules the same poll as a write of targetValue = 255, and never raises
\* a wrong-value-type error.
C11_RestorePreviousIsSet255 ==
    ( RestoreCall(PropRestorePrevious) \/ RestoreCall(PropTargetValue) )
        => RestoreOutcome

C11_Witness ==
    /\ RestoreCall(PropRestorePrevious)
    /\ call.value = Str
    /\ pc = "done"
    /\ result = Status("Fail")
    /\ Len(polls) = 1

\* a step in which the driver delivers the status update s to onUpdate
StatusUpdate(s) == OnUpdate(s)

\* a step in which the Get issued by onUpdate fails
GetFails == getPending /\ ~getPending' /\ valueDB' = valueDB

\* C12: for a write of targetValue other than 255, a later status update
\* Success writes the written value to currentValue; Fail writes nothing and
\* issues one Get, whose failure is swallowed and does not fail the write;
\* Working and NoSupport neither write nor send.
C12_StatusUpdates ==
    [][ /\ \A s \in SupervisionStatus :
              StatusUpdate(s)
                  => /\ SentSet.targetValue # 255
                     /\ EffProperty(call.property) = PropTargetValue
                     /\ UNCHANGED << pc, thrown, result, polls >>
                     /\ CASE s = "Success" ->
                               /\ writes' = Append(writes,
                                      Write(SinglecastNode, SentSet.targetValue,
                                            "onUpdate"))
                               /\ valueDB'[SinglecastNode] = Some(SentSet.targetValue)
                               /\ sent' = sent
                          [] s = "Fail" ->
                               /\ writes' = writes /\ valueDB' = valueDB
                               /\ sent' = Append(sent, [ cc |-> "Get" ])
                          [] OTHER ->
                               /\ writes' = writes /\ valueDB' = valueDB
                               /\ sent' = sent
        /\ GetFails => UNCHANGED << pc, thrown, result, writes, sent, polls >>
      ]_vars

\* a status update Fail made the handler issue a Get, and the Get failed
C12_Witness ==
    /\ pc = "done"
    /\ thrown = Undefined
    /\ session = "closed"
    /\ SentSet.targetValue = 80
    /\ sent = << SentSet, [ cc |-> "Get" ] >>
    /\ ~getPending
    /\ writes = << >>
    /\ valueDB[SinglecastNode] = Undefined

\* the handler returned from a multicast write of targetValue
MulticastWriteDone ==
    /\ pc = "done"
    /\ EffProperty(call.property) = PropTargetValue
    /\ isMulticast(call.cast)

\* the optimistic update applies to the result of the Set
OptimisticUpdateApplies ==
    \/ ~disableOptimisticValueUpdate /\ result = Undefined
    \/ result = Status("Success")

\* the nodes of the group whose endpoint supports Multilevel Switch
SupportingNodes == { n \in Nodes : supportsCC[n] }

\* C13: a multicast write of targetValue, when the optimistic update applies
\* and the value is in 0 .. 99, writes currentValue for exactly the physical
\* nodes of the group whose endpoint supports Multilevel Switch; it schedules
\* a poll if and only if the value is 255, so never for a value in 0 .. 99,
\* confirmed or not.
C13_MulticastWrite ==
    MulticastWriteDone
        => /\ ( OptimisticUpdateApplies /\ SentSet.targetValue \in 0 .. 99 )
                => /\ { writes[i].node : i \in 1 .. Len(writes) } = SupportingNodes
                   /\ Len(writes) = Cardinality(SupportingNodes)
                   /\ \A i \in 1 .. Len(writes) :
                         /\ writes[i].value = SentSet.targetValue
                         /\ valueDB[writes[i].node] = Some(SentSet.targetValue)
           /\ polls # << >> <=> SentSet.targetValue = 255
           /\ SentSet.targetValue = 255
                => polls = << [ property |-> PropCurrentValue,
                                expected |-> Undefined,
                                duration |-> DurationFrom(call.transitionDuration) ] >>

\* a multicast write of 80 updated some node of the group and not another
C13_Witness ==
    /\ MulticastWriteDone
    /\ SentSet.targetValue = 80
    /\ OptimisticUpdateApplies
    /\ writes # << >>
    /\ SupportingNodes # Nodes
    /\ polls = << >>

(***************************************************************************)
(* Further claims about the command codec (specification SpecCodec)        *)
(***************************************************************************)
\* a Report was decoded from the received payload without an error
ReportDecoded ==
    /\ cpc \in { "decoded", "persisted" }
    /\ wire.kind = "Report"
    /\ ~decoded.error

\* the properties persistValues stored
PersistedProperties == { persisted[i].property : i \in 1 .. Len(persisted) }

\* the stored entry of currentValue that holds the unknown marker
UnknownCurrentValue == [ property |-> "currentValue", value |-> unknownNumber ]

\* C14: persisting a Report whose current value is the unknown marker stores
\* the marker as currentValue when preserveUnknownValues is set and stores
\* no currentValue when it is not; targetValue and duration are taken from
\* the payload only when the version is >= 4 and the payload has at least 3
\* bytes, and are undefined otherwise.
C14_ReportPersist ==
    ReportDecoded
        => /\ ( cpc = "persisted" /\ wire.payload[1] = 254 )
                => IF preserveUnknownValues
                   THEN \E i \in 1 .. Len(persisted) : persisted[i] = UnknownCurrentValue
                   ELSE "currentValue" \notin PersistedProperties
           /\ IF wire.version >= 4 /\ Len(wire.payload) >= 3
              THEN /\ decoded.targetValue = parseNumber(wire.payload[2])
                   /\ decoded.duration = DurationParseReport(wire.payload[3])
              ELSE /\ decoded.targetValue = NoNumber
                   /\ decoded.duration = Undefined
                   /\ cpc = "persisted"
                        => PersistedProperties \subseteq { "currentValue" }

\* a version 4 Report of three bytes with the unknown marker was persisted
\* without the marker, with its target value and duration
C14_Witness ==
    /\ ReportDecoded
    /\ cpc = "persisted"
    /\ wire.version = 4
    /\ Len(wire.payload) = 3
    /\ wire.payload[1] = 254
    /\ ~preserveUnknownValues
    /\ PersistedProperties = { "targetValue", "duration" }

=============================================================================
